---------------------------- MODULE Spec2Model ----------------------------
(***************************************************************************)
(* cvardump: the extraction of cvar records from the text printed by the  *)
(* "cvarlist" console command (src/src/main.rs, extract_cvars), and their *)
(* serialisation as CSV rows (write_cvar_csv), run in sequence by main.   *)
(*                                                                         *)
(* A String is a sequence of characters; a character is a one-letter      *)
(* string, or a longer string naming a code point ("U+0663").             *)
(***************************************************************************)
EXTENDS Naturals, Sequences, FiniteSets

VARIABLES
    text,           \* the input String handed to extract_cvars
    pending,        \* the lines the loop of extract_cvars has not yet taken
    cvars,          \* extract_cvars: let mut cvars = Vec::new()
    expected_cvars, \* extract_cvars: Option<usize>; <<>> is None, <<n>> is Some(n)
    pc,             \* where main is
    ret,            \* what extract_cvars returned to main: <<>> before it returns
    panic,          \* the panic message, "" while there is none
    warning,        \* what main printed after comparing the two counts
    out,            \* the records handed to the csv writer, in order
    result          \* write_cvar_csv's result: "" (none yet), "Ok" or "Err"

vars == <<text, pending, cvars, expected_cvars, pc, ret, panic, warning, out, result>>

-----------------------------------------------------------------------------
(* Characters and strings *)

TAB == "\t"
CR == "\r"
LF == "\n"
\* ARABIC-INDIC DIGIT THREE: of Unicode's class Nd, and no ASCII digit.
ArabicThree == "U+0663"

AsciiDigits == <<"0", "1", "2", "3", "4", "5", "6", "7", "8", "9">>

\* The regex crate's \s is Unicode's White_Space.
IsSpace(c) == c \in {" ", TAB, CR}

IsAsciiDigit(c) == \E k \in 1..10 : AsciiDigits[k] = c

\* The regex crate's \d is Unicode's class Nd (the crate's unicode default).
IsDigit(c) == IsAsciiDigit(c) \/ c = ArabicThree

DigitValue(c) == (CHOOSE k \in 1..10 : AsciiDigits[k] = c) - 1

Min(S) == CHOOSE x \in S : \A y \in S : x <= y

\* s[a..b], empty when b < a.
Slice(s, a, b) == [k \in 1..(IF b < a THEN 0 ELSE b - a + 1) |-> s[a + k - 1]]

\* Whether t occurs in s at position p.
At(s, p, t) ==
    /\ p >= 1
    /\ p + Len(t) - 1 <= Len(s)
    /\ \A k \in 1..Len(t) : s[p + k - 1] = t[k]

RECURSIVE Concat(_)
Concat(ss) == IF ss = <<>> THEN <<>> ELSE Head(ss) \o Concat(Tail(ss))

-----------------------------------------------------------------------------
(* str::lines: the text split at "\n", a "\r" before it dropped; the last  *)
(* line needs no terminator, and a final terminator starts no line.       *)

StripCR(l) ==
    IF l # <<>> /\ l[Len(l)] = CR THEN SubSeq(l, 1, Len(l) - 1) ELSE l

RECURSIVE Lines(_)
Lines(t) ==
    IF t = <<>> THEN <<>>
    ELSE LET nl == {k \in 1..Len(t) : t[k] = LF}
         IN  IF nl = {} THEN <<t>>
             ELSE LET k == Min(nl)
                  IN  <<StripCR(Slice(t, 1, k - 1))>> \o Lines(Slice(t, k + 1, Len(t)))

-----------------------------------------------------------------------------
\* regex_cvar:  ^(.*?)\s*: (.*?)\s*: (.*?)\s*:(?: (.*)|)$
\* Leftmost-first matching: a lazy group ends at the first position from
\* which the rest of the pattern matches; the greedy \s* takes the whole
\* run of whitespace, since what follows it is ':' and no whitespace.
\* A line holds no "\n", so '.' matches every character of it.

\* A variant of SkipSpace: the pattern with no \s* before its delimiters.
SkipNoSpace(s, p) == p

\* The first position at or after p that holds no whitespace.
RECURSIVE SkipSpace(_, _)
SkipSpace(s, p) ==
    IF p <= Len(s) /\ IsSpace(s[p]) THEN SkipSpace(s, p + 1) ELSE p

\* A variant of DescTail: anything may follow the third ':', (?: ?(.*)|)$
DescTailLoose(s, p) == TRUE

\* (?: (.*)|)$ at position p: a space and the rest of the line, or the line's end.
DescTail(s, p) == p = Len(s) + 1 \/ s[p] = " "

\* \s*:(?: (.*)|)$ from position e.
Tail3(s, e) ==
    LET q == SkipSpace(s, e)
    IN  /\ q <= Len(s)
        /\ s[q] = ":"
        /\ DescTail(s, q + 1)

\* The ends (one past) a lazy group starting at p may have, given what must follow.
Ends3(s, p) == {e \in p..(Len(s) + 1) : Tail3(s, e)}

\* \s*: (.*?)\s*:(?: (.*)|)$ from position e.
Tail2(s, e) ==
    LET q == SkipSpace(s, e)
    IN  /\ At(s, q, <<":", " ">>)
        /\ Ends3(s, q + 2) # {}

Ends2(s, p) == {e \in p..(Len(s) + 1) : Tail2(s, e)}

\* \s*: (.*?)\s*: (.*?)\s*:(?: (.*)|)$ from position e.
Tail1(s, e) ==
    LET q == SkipSpace(s, e)
    IN  /\ At(s, q, <<":", " ">>)
        /\ Ends2(s, q + 2) # {}

Ends1(s) == {e \in 1..(Len(s) + 1) : Tail1(s, e)}

\* regex_cvar.captures(line) is Some.
IsCvarLine(s) == Ends1(s) # {}

\* The capture groups of a line regex_cvar matches; g4 is <<>> (None) or <<text>>.
CvarCaptures(s) ==
    LET e1 == Min(Ends1(s))
        b2 == SkipSpace(s, e1) + 2
        e2 == Min(Ends2(s, b2))
        b3 == SkipSpace(s, e2) + 2
        e3 == Min(Ends3(s, b3))
        q3 == SkipSpace(s, e3)
    IN  [g1 |-> Slice(s, 1, e1 - 1),
         g2 |-> Slice(s, b2, e2 - 1),
         g3 |-> Slice(s, b3, e3 - 1),
         g4 |-> IF q3 = Len(s) THEN <<>> ELSE <<Slice(s, q3 + 2, Len(s))>>]

-----------------------------------------------------------------------------
\* regex_count:  ^(\d+) total convars/concommands$

CountSuffix ==
    <<" ", "t", "o", "t", "a", "l", " ", "c", "o", "n", "v", "a", "r", "s", "/",
      "c", "o", "n", "c", "o", "m", "m", "a", "n", "d", "s">>

\* regex_count.captures(line) is Some: one digit or more, then the literal, then the end.
IsCountLine(s) ==
    LET d == Len(s) - Len(CountSuffix)
    IN  /\ d >= 1
        /\ \A k \in 1..d : IsDigit(s[k])
        /\ At(s, d + 1, CountSuffix)

\* Group 1 of a line regex_count matches.
CountCapture(s) == Slice(s, 1, Len(s) - Len(CountSuffix))

\* usize::MAX on a 64-bit target, 2^64 - 1, as a decimal numeral.
UsizeMaxDigits ==
    <<"1", "8", "4", "4", "6", "7", "4", "4", "0", "7",
      "3", "7", "0", "9", "5", "5", "1", "6", "1", "5">>

RECURSIVE StripZeros(_)
StripZeros(d) == IF d # <<>> /\ d[1] = "0" THEN StripZeros(Tail(d)) ELSE d

\* Whether the numeral d (ASCII digits) denotes more than usize::MAX: what makes
\* checked_mul or checked_add give None while the digits are folded in.
Overflows(d) ==
    LET z == StripZeros(d)
        m == UsizeMaxDigits
    IN  \/ Len(z) > Len(m)
        \/ /\ Len(z) = Len(m)
           /\ \E k \in 1..Len(m) :
                /\ \A j \in 1..(k - 1) : z[j] = m[j]
                /\ DigitValue(z[k]) > DigitValue(m[k])

RECURSIVE Horner(_, _)
Horner(acc, d) ==
    IF d = <<>> THEN acc ELSE Horner(acc * 10 + DigitValue(d[1]), Tail(d))

\* str::parse::<usize>: <<n>> for Ok(n), <<>> for Err (an empty string, a character
\* that char::to_digit(10) refuses, or a value above usize::MAX).
ParseUsize(d) ==
    IF d = <<>> \/ (\E k \in 1..Len(d) : ~IsAsciiDigit(d[k])) \/ Overflows(d)
    THEN <<>>
    ELSE <<Horner(0, d)>>

-----------------------------------------------------------------------------
\* regex_attrs:  , "(.*?)"

AttrOpen == <<",", " ", "\"">>

\* A variant of Closers: the group greedy, "(.*)", closing at the last '"'.
ClosersGreedy(s, i) ==
    LET js == {j \in (i + 3)..Len(s) : s[j] = "\""}
    IN  IF js = {} THEN {} ELSE {CHOOSE j \in js : \A h \in js : h <= j}

\* Where the text of an attribute opened at i closes: the first '"' after the opening.
Closers(s, i) == {j \in (i + 3)..Len(s) : s[j] = "\""}

\* The leftmost match at or after p: <<>> when there is none, else <<[from, to]>>.
AttrFind(s, p) ==
    LET starts == {i \in p..Len(s) : At(s, i, AttrOpen) /\ Closers(s, i) # {}}
    IN  IF p < 1 \/ starts = {} THEN <<>>
        ELSE LET i == Min(starts)
             IN  <<[from |-> i, to |-> Min(Closers(s, i))]>>

\* regex_attrs.find_iter(s): the matched substrings, each search starting where
\* the match before it ended.
RECURSIVE FindIter(_, _)
FindIter(s, p) ==
    LET m == AttrFind(s, p)
    IN  IF m = <<>> THEN <<>>
        ELSE <<Slice(s, m[1].from, m[1].to)>> \o FindIter(s, m[1].to + 1)

\* regex_attrs.captures(m).unwrap().index(1), m a substring find_iter gave.
AttrCapture(m) ==
    LET r == AttrFind(m, 1)
    IN  Slice(m, r[1].from + 3, r[1].to - 1)

\* The attrs of extract_cvars, from capture group 3.
Attributes(col) ==
    LET ms == FindIter(col, 1)
    IN  [k \in 1..Len(ms) |-> AttrCapture(ms[k])]

\* The Cvar pushed for a line regex_cvar matches.
MakeCvar(line) ==
    LET c == CvarCaptures(line)
    IN  [name |-> c.g1,
         default |-> c.g2,
         attributes |-> Attributes(c.g3),
         description |-> IF c.g4 = <<>> THEN <<>> ELSE c.g4[1]]

-----------------------------------------------------------------------------
(* write_cvar_csv *)

Header ==
    << <<"n", "a", "m", "e">>,
       <<"d", "e", "f", "a", "u", "l", "t">>,
       <<"a", "t", "t", "r", "i", "b", "t", "u", "e", "s">>,
       <<"d", "e", "s", "c", "r", "i", "p", "t", "i", "o", "n">> >>

\* [String]::join(",")
RECURSIVE JoinComma(_)
JoinComma(ss) ==
    IF ss = <<>> THEN <<>>
    ELSE IF Len(ss) = 1 THEN ss[1]
    ELSE ss[1] \o <<",">> \o JoinComma(Tail(ss))

\* A variant of Row: the fields in the order of the header's labels.
RowInHeaderOrder(cvar) ==
    <<cvar.name, cvar.default, JoinComma(cvar.attributes), cvar.description>>

\* The record written for one cvar.
Row(cvar) ==
    <<cvar.name, JoinComma(cvar.attributes), cvar.default, cvar.description>>

-----------------------------------------------------------------------------
(* main, from the call of extract_cvars on *)

\* A variant of StepCvar: the record put at the front of the list.
StepCvarAtFront ==
    /\ pc = "extract"
    /\ pending # <<>>
    /\ IsCvarLine(Head(pending))
    /\ cvars' = <<MakeCvar(Head(pending))>> \o cvars
    /\ pending' = Tail(pending)
    /\ UNCHANGED <<text, expected_cvars, pc, ret, panic, warning, out, result>>

\* extract_cvars, the loop's body: the line matches regex_cvar.
StepCvar ==
    /\ pc = "extract"
    /\ pending # <<>>
    /\ IsCvarLine(Head(pending))
    /\ cvars' = Append(cvars, MakeCvar(Head(pending)))
    /\ pending' = Tail(pending)
    /\ UNCHANGED <<text, expected_cvars, pc, ret, panic, warning, out, result>>

\* The line matches regex_count and no count was found before: the count is parsed.
StepCount ==
    /\ pc = "extract"
    /\ pending # <<>>
    /\ ~IsCvarLine(Head(pending))
    /\ IsCountLine(Head(pending))
    /\ expected_cvars = <<>>
    /\ ParseUsize(CountCapture(Head(pending))) # <<>>
    /\ expected_cvars' = ParseUsize(CountCapture(Head(pending)))
    /\ pending' = Tail(pending)
    /\ UNCHANGED <<text, cvars, pc, ret, panic, warning, out, result>>

\* The line matches regex_count and no count was found before, and parse() gives
\* Err: unwrap() panics.
StepCountUnparsable ==
    /\ pc = "extract"
    /\ pending # <<>>
    /\ ~IsCvarLine(Head(pending))
    /\ IsCountLine(Head(pending))
    /\ expected_cvars = <<>>
    /\ ParseUsize(CountCapture(Head(pending))) = <<>>
    /\ pc' = "panicked"
    /\ panic' = "called Result::unwrap() on an Err value"
    /\ UNCHANGED <<text, pending, cvars, expected_cvars, ret, warning, out, result>>

\* A variant of StepCountTwice: a second count replaces the first.
StepCountOverwrite ==
    /\ pc = "extract"
    /\ pending # <<>>
    /\ ~IsCvarLine(Head(pending))
    /\ IsCountLine(Head(pending))
    /\ expected_cvars # <<>>
    /\ ParseUsize(CountCapture(Head(pending))) # <<>>
    /\ expected_cvars' = ParseUsize(CountCapture(Head(pending)))
    /\ pending' = Tail(pending)
    /\ UNCHANGED <<text, cvars, pc, ret, panic, warning, out, result>>

\* The line matches regex_count and a count was found before.
StepCountTwice ==
    /\ pc = "extract"
    /\ pending # <<>>
    /\ ~IsCvarLine(Head(pending))
    /\ IsCountLine(Head(pending))
    /\ expected_cvars # <<>>
    /\ pc' = "panicked"
    /\ panic' = "found cvar count twice"
    /\ UNCHANGED <<text, pending, cvars, expected_cvars, ret, warning, out, result>>

\* A variant of StepIgnore: a line that matches nothing drops the count found.
StepIgnoreDropsCount ==
    /\ pc = "extract"
    /\ pending # <<>>
    /\ ~IsCvarLine(Head(pending))
    /\ ~IsCountLine(Head(pending))
    /\ expected_cvars' = <<>>
    /\ pending' = Tail(pending)
    /\ UNCHANGED <<text, cvars, pc, ret, panic, warning, out, result>>

\* The line matches neither regex.
StepIgnore ==
    /\ pc = "extract"
    /\ pending # <<>>
    /\ ~IsCvarLine(Head(pending))
    /\ ~IsCountLine(Head(pending))
    /\ pending' = Tail(pending)
    /\ UNCHANGED <<text, cvars, expected_cvars, pc, ret, panic, warning, out, result>>

\* main's comparison of the number of cvars with the count found.
Compare(n, expected) ==
    IF expected = <<>> \/ n = expected[1] THEN "none"
    ELSE IF n < expected[1] THEN "less"
    ELSE "more"

\* The loop is over: extract_cvars returns (cvars, expected_cvars), main warns of a
\* count that differs and calls write_cvar_csv.
ExtractReturn ==
    /\ pc = "extract"
    /\ pending = <<>>
    /\ ret' = <<[cvars |-> cvars, expected |-> expected_cvars]>>
    /\ warning' = Compare(Len(cvars), expected_cvars)
    /\ pc' = "header"
    /\ UNCHANGED <<text, pending, cvars, expected_cvars, panic, out, result>>

\* write_cvar_csv: the header is written.
WriteHeader ==
    /\ pc = "header"
    /\ out' = Append(out, Header)
    /\ pc' = "rows"
    /\ UNCHANGED <<text, pending, cvars, expected_cvars, ret, panic, warning, result>>

\* write_cvar_csv: the next cvar's record is written.
WriteRow ==
    /\ pc = "rows"
    /\ Len(out) <= Len(ret[1].cvars)
    /\ out' = Append(out, Row(ret[1].cvars[Len(out)]))
    /\ UNCHANGED <<text, pending, cvars, expected_cvars, pc, ret, panic, warning, result>>

\* write_cvar_csv: write_record gives Err, which the ? operator returns at once.
WriteFail ==
    /\ \/ pc = "header"
       \/ pc = "rows" /\ Len(out) <= Len(ret[1].cvars)
    /\ result' = "Err"
    /\ pc' = "done"
    /\ UNCHANGED <<text, pending, cvars, expected_cvars, ret, panic, warning, out>>

\* write_cvar_csv: every cvar is written, Ok(()).
WriteReturn ==
    /\ pc = "rows"
    /\ Len(out) > Len(ret[1].cvars)
    /\ result' = "Ok"
    /\ pc' = "done"
    /\ UNCHANGED <<text, pending, cvars, expected_cvars, ret, panic, warning, out>>

Next ==
    \/ StepCvar
    \/ StepCount
    \/ StepCountUnparsable
    \/ StepCountTwice
    \/ StepIgnore
    \/ ExtractReturn
    \/ WriteHeader
    \/ WriteRow
    \/ WriteFail
    \/ WriteReturn

-----------------------------------------------------------------------------
(* The inputs *)

\* The sequences of at most n elements of S.
RECURSIVE SeqsUpTo(_, _)
SeqsUpTo(S, n) ==
    IF n = 0 THEN {<<>>}
    ELSE LET shorter == SeqsUpTo(S, n - 1)
         IN  shorter \cup {Append(q, x) : q \in {r \in shorter : Len(r) = n - 1}, x \in S}

\* The lines ls, each but the last followed by eol, the last too when final.
RECURSIVE JoinLines(_, _, _)
JoinLines(ls, eol, final) ==
    IF ls = <<>> THEN <<>>
    ELSE IF Len(ls) = 1 THEN ls[1] \o (IF final THEN eol ELSE <<>>)
    ELSE ls[1] \o eol \o JoinLines(Tail(ls), eol, final)

MaxLines == 3

CoreLines ==
    { <<"a", ":", " ", "0", ":", " ", ",", " ", "\"", "A", "\"", ",", " ", "\"", "B", "\"", ":", " ", "d">>,
      <<" ", "b", " ", ":", " ", "1", " ", ":", " ", " ", ":">>,
      <<"0", "2">> \o CountSuffix,
      <<"1", "8", "4", "4", "6", "7", "4", "4", "0", "7", "3", "7", "0", "9", "5", "5", "1", "6", "1", "6">> \o CountSuffix,
      <<ArabicThree>> \o CountSuffix,
      <<>>,
      <<"a", ":", " ", "b", ":", " ", "c", ":", "d">> }

\* The lines ended by "\n", the last one by nothing, or all of them by "\r\n".
Texts ==
    {JoinLines(ls, <<LF>>, FALSE) : ls \in SeqsUpTo(CoreLines, MaxLines)}
        \cup {JoinLines(ls, <<CR, LF>>, TRUE) : ls \in SeqsUpTo(CoreLines, MaxLines)}

InitOn(T) ==
    /\ text \in T
    /\ pending = Lines(text)
    /\ cvars = <<>>
    /\ expected_cvars = <<>>
    /\ pc = "extract"
    /\ ret = <<>>
    /\ panic = ""
    /\ warning = ""
    /\ out = <<>>
    /\ result = ""

Init == InitOn(Texts)

Spec == Init /\ [][Next]_vars

\* Every short line over the characters the record grammar tells apart, each as a
\* one-line input, with a few longer inputs beside them.
MaxLineLen == 8

LineAlphabet == {"a", " ", ":", TAB}

SmallTexts == {JoinLines(ls, <<LF>>, FALSE) : ls \in SeqsUpTo(CoreLines, 2)}

InitLine == InitOn(SeqsUpTo(LineAlphabet, MaxLineLen) \cup SmallTexts)

SpecLine == InitLine /\ [][Next]_vars

\* One record line whose attribute column is every short column over the
\* characters regex_attrs tells apart, or a few pieces of columns put together.
MaxColLen == 6

MaxPieces == 4

AttrAlphabet == {",", " ", "\"", "A"}

AttrPieces ==
    { <<",", " ", "\"", "A", "\"">>,
      <<",", " ", "\"", "B", "\"">>,
      <<",", "\"", "C", "\"">>,
      <<",", " ", "\"">>,
      <<"s", "v">> }

AttrColumns ==
    SeqsUpTo(AttrAlphabet, MaxColLen)
        \cup {Concat(ps) : ps \in SeqsUpTo(AttrPieces, MaxPieces)}

AttrLine(col) == <<"n", ":", " ", "0", ":", " ">> \o col \o <<" ", ":", " ", "d">>

InitAttr == InitOn({AttrLine(col) : col \in AttrColumns} \cup SmallTexts)

SpecAttr == InitAttr /\ [][Next]_vars

-----------------------------------------------------------------------------
(* What the properties speak of *)

AllLines == Lines(text)

\* The lines the loop has taken.
Consumed == SubSeq(AllLines, 1, Len(AllLines) - Len(pending))

\* The lines the loop has looked at: those taken and, after a panic, the line
\* it panicked on.
Seen == IF pc = "panicked" THEN Append(Consumed, Head(pending)) ELSE Consumed

\* The line grammars as the specification words them, by the places of the delimiters.

\* The first place at or after p where t occurs, 0 when there is none.
FirstAt(s, p, t) ==
    LET ps == {q \in p..Len(s) : At(s, q, t)}
    IN  IF ps = {} THEN 0 ELSE Min(ps)

ColonSpace == <<":", " ">>

\* The first ": " of the line, and the first ": " after it.
Delim1(s) == FirstAt(s, 1, ColonSpace)
Delim2(s) == IF Delim1(s) = 0 THEN 0 ELSE FirstAt(s, Delim1(s) + 2, ColonSpace)

\* The first ':' after the second delimiter, whatever follows it.
Delim3Any(s) == IF Delim2(s) = 0 THEN 0 ELSE FirstAt(s, Delim2(s) + 2, <<":">>)

\* The first ':' after the second delimiter that ends the line or has a space after it.
Delim3(s) ==
    IF Delim2(s) = 0 THEN 0
    ELSE LET ps == {q \in (Delim2(s) + 2)..Len(s) :
                        s[q] = ":" /\ (q = Len(s) \/ s[q + 1] = " ")}
         IN  IF ps = {} THEN 0 ELSE Min(ps)

RecordLine(s) == Delim3(s) # 0
SummaryLine(s) == IsCountLine(s)
NoiseLine(s) == ~IsCvarLine(s) /\ ~IsCountLine(s)
NotNoiseLine(s) == ~NoiseLine(s)

RECURSIVE RTrim(_)
RTrim(s) ==
    IF s # <<>> /\ IsSpace(s[Len(s)]) THEN RTrim(SubSeq(s, 1, Len(s) - 1)) ELSE s

RECURSIVE LTrim(_)
LTrim(s) == IF s # <<>> /\ IsSpace(s[1]) THEN LTrim(Tail(s)) ELSE s

Trim(s) == LTrim(RTrim(s))

\* The lines among ls that satisfy the grammar, in order.
RecordLines(ls) == SelectSeq(ls, RecordLine)

-----------------------------------------------------------------------------
C2_RecordsInLineOrder ==
    LET ls == SelectSeq(Consumed, IsCvarLine)
    IN  /\ Len(cvars) = Len(ls)
        /\ \A i \in 1..Len(ls) : cvars[i] = MakeCvar(ls[i])
        /\ ret # <<>> => Consumed = AllLines /\ ret[1].cvars = cvars

\* Two records returned, from two different lines, with a summary line or a line
\* matching nothing among the lines of the input.
C2_Witness ==
    /\ ret # <<>>
    /\ Len(ret[1].cvars) >= 2
    /\ ret[1].cvars[1] # ret[1].cvars[2]
    /\ Len(AllLines) > Len(ret[1].cvars)

\* The attributes with a "," between each two of them.
Interleaved(as) ==
    Concat([k \in 1..(IF as = <<>> THEN 0 ELSE 2 * Len(as) - 1) |->
                IF k % 2 = 1 THEN as[(k + 1) \div 2] ELSE <<",">>])

\* The rows write_cvar_csv is to write after the header for the cvars cs.
RowsOf(cs) ==
    [i \in 1..Len(cs) |->
        <<cs[i].name, Interleaved(cs[i].attributes), cs[i].default, cs[i].description>>]

\* C3: when write_cvar_csv returns Ok it has written n + 1 rows for n records: first
\* the header row, then the i-th record's row, its fields name, the attributes
\* joined with "," as one field, default_value, description; for no record, the
\* header row alone. Until then, what is written is the beginning of those rows.
C3_HeaderThenRowPerRecord ==
    /\ out # <<>> =>
          /\ ret # <<>>
          /\ Len(out) <= Len(ret[1].cvars) + 1
          /\ out = SubSeq(<<out[1]>> \o RowsOf(ret[1].cvars), 1, Len(out))
    /\ result = "Ok" => Len(out) = Len(ret[1].cvars) + 1

\* Ok after the rows of two records, the first of them with two attributes or more
\* and a default value that differs from the joined attributes.
C3_Witness ==
    /\ result = "Ok"
    /\ Len(out) >= 3
    /\ Len(ret[1].cvars[1].attributes) >= 2
    /\ out[2][2] # out[2][3]

\* C4: the header row is name, default, attributes, description.
C4_HeaderLabels ==
    out # <<>> =>
        out[1] = << <<"n", "a", "m", "e">>,
                    <<"d", "e", "f", "a", "u", "l", "t">>,
                    <<"a", "t", "t", "r", "i", "b", "u", "t", "e", "s">>,
                    <<"d", "e", "s", "c", "r", "i", "p", "t", "i", "o", "n">> >>

\* extract_cvars as a function of the lines: the loop, one line after the other,
\* until a panic.
StepOn(st, l) ==
    IF IsCvarLine(l) THEN [st EXCEPT !.cvars = Append(@, MakeCvar(l))]
    ELSE IF IsCountLine(l)
         THEN IF st.expected # <<>>
              THEN [st EXCEPT !.panic = "found cvar count twice"]
              ELSE IF ParseUsize(CountCapture(l)) = <<>>
                   THEN [st EXCEPT !.panic = "called Result::unwrap() on an Err value"]
                   ELSE [st EXCEPT !.expected = ParseUsize(CountCapture(l))]
         ELSE st

RECURSIVE ExtractFrom(_, _)
ExtractFrom(st, ls) ==
    IF ls = <<>> \/ st.panic # "" THEN st
    ELSE ExtractFrom(StepOn(st, Head(ls)), Tail(ls))

ExtractOn(ls) == ExtractFrom([cvars |-> <<>>, expected |-> <<>>, panic |-> ""], ls)

\* C5: a line that matches neither grammar changes neither the records nor the
\* count and raises no panic: what the loop holds after the lines it has looked at
\* is what extract_cvars gives on those lines with every such line removed, and so
\* is what it returns.
C5_NoiseLinesIgnored ==
    LET clean == ExtractOn(SelectSeq(Seen, NotNoiseLine))
    IN  /\ cvars = clean.cvars
        /\ expected_cvars = clean.expected
        /\ panic = clean.panic
        /\ ret # <<>> => ret[1] = [cvars |-> clean.cvars, expected |-> clean.expected]

\* A result returned with a record and a count, from an input with a line that
\* matches nothing before them, one between them, and a blank line.
C5_Witness ==
    /\ ret # <<>>
    /\ ret[1].cvars # <<>>
    /\ ret[1].expected # <<>>
    /\ Len(AllLines) = 3
    /\ NoiseLine(AllLines[1])
    /\ AllLines[1] # <<>>

\* C9: a line that matches the summary grammar, no count found before it, never
\* aborts the extraction: the only panic is the one on a second summary line.
C9_CountAlwaysParses ==
    pc = "panicked" => panic = "found cvar count twice"

\* The pattern of an attribute in a column, by the places of its characters: a
\* comma at i, a space (one, or with loose none either), the opening quote, and
\* the first quote after it as the closing one.
OpenOf(s, i, loose) ==
    IF At(s, i + 1, <<" ", "\"">>) THEN i + 2
    ELSE IF loose /\ At(s, i + 1, <<"\"">>) THEN i + 1
    ELSE 0

CloseOf(s, i, loose) ==
    IF OpenOf(s, i, loose) = 0 THEN 0 ELSE FirstAt(s, OpenOf(s, i, loose) + 1, <<"\"">>)

Occurrences(s, loose) ==
    {i \in 1..Len(s) : s[i] = "," /\ CloseOf(s, i, loose) # 0}

\* The occurrences that do not start inside an occurrence taken before them.
NonOverlapping(s, loose) ==
    CHOOSE T \in SUBSET Occurrences(s, loose) :
        \A i \in Occurrences(s, loose) :
            i \in T <=> ~\E h \in T : h < i /\ i <= CloseOf(s, h, loose)

\* Their quoted texts, in order of appearance.
QuotedTexts(s, loose) ==
    LET T == NonOverlapping(s, loose)
        nth(k) == CHOOSE i \in T : Cardinality({h \in T : h < i}) = k - 1
    IN  [k \in 1..Cardinality(T) |->
            Slice(s, OpenOf(s, nth(k), loose) + 1, CloseOf(s, nth(k), loose) - 1)]

\* Segment 3 of a line of the record grammar: between the second and the third
\* delimiter, trimmed at its end.
AttributeColumn(l) == RTrim(Slice(l, Delim2(l) + 2, Delim3(l) - 1))

\* C6 as amended: the attributes of a record are the quoted texts of the
\* non-overlapping occurrences, in its line's attribute column, of a comma, one
\* space, and a double-quoted text, in order of appearance, duplicates kept; a
\* column with no occurrence gives no attribute.
C6_AttributesInOrder ==
    LET ls == RecordLines(Consumed)
    IN  /\ Len(cvars) = Len(ls)
        /\ \A i \in 1..Len(ls) :
              cvars[i].attributes = QuotedTexts(AttributeColumn(ls[i]), FALSE)

\* C6 as claimed: the space after the comma is optional.
C6_SpaceOptional ==
    LET ls == RecordLines(Consumed)
    IN  /\ Len(cvars) = Len(ls)
        /\ \A i \in 1..Len(ls) :
              cvars[i].attributes = QuotedTexts(AttributeColumn(ls[i]), TRUE)

\* A record with three attributes, the first two different, from a column that
\* holds more than their occurrences.
C6_Witness ==
    /\ ret # <<>>
    /\ Len(ret[1].cvars) = 1
    /\ Len(ret[1].cvars[1].attributes) = 3
    /\ ret[1].cvars[1].attributes[1] # ret[1].cvars[1].attributes[2]
    /\ Len(AttributeColumn(AllLines[1])) > 15

\* C7 as amended: a line yields a record exactly when, after its first two ": "
\* delimiters, it has a ':' that ends the line or is followed by a space; the
\* description is what follows the first such ':' and its space, and is empty
\* when that ':' ends the line.
C7_DescriptionAfterThirdDelimiter ==
    LET ls == RecordLines(Consumed)
    IN  /\ Len(cvars) = Len(ls)
        /\ \A i \in 1..Len(ls) :
              cvars[i].description =
                  IF Delim3(ls[i]) = Len(ls[i]) THEN <<>>
                  ELSE Slice(ls[i], Delim3(ls[i]) + 2, Len(ls[i]))

\* s without one leading space, when it has one.
DropOneSpace(s) == IF s # <<>> /\ s[1] = " " THEN Tail(s) ELSE s

DecomposesLine(s) == Delim3Any(s) # 0

\* C7 as claimed: every line with the two ": " delimiters and a third ':' yields a
\* record, its description what follows that ':' less one leading space if any.
C7_OptionalLeadingSpace ==
    LET ls == SelectSeq(Consumed, DecomposesLine)
    IN  /\ Len(cvars) = Len(ls)
        /\ \A i \in 1..Len(ls) :
              cvars[i].description =
                  DropOneSpace(Slice(ls[i], Delim3Any(ls[i]) + 1, Len(ls[i])))

\* A record with a description, from a line whose third delimiter is not the first
\* ':' after the second delimiter.
C7_Witness ==
    /\ ret # <<>>
    /\ Len(ret[1].cvars) = 1
    /\ ret[1].cvars[1].description # <<>>
    /\ Delim3(AllLines[1]) > Delim3Any(AllLines[1])

\* C8: no record has the empty string as its name.
C8_NameNotEmpty ==
    \A i \in 1..Len(cvars) : cvars[i].name # <<>>

EndsInSpace(s) == s # <<>> /\ IsSpace(s[Len(s)])
BeginsWithSpace(s) == s # <<>> /\ IsSpace(s[1])

\* C10 as amended: the name of a record is its line up to the first ": ", the
\* default value what is between the first ": " and the second, each with the
\* whitespace at its end removed, and only that: neither ends with whitespace.
C10_TrimmedAtTheEnd ==
    LET ls == RecordLines(Consumed)
    IN  /\ Len(cvars) = Len(ls)
        /\ \A i \in 1..Len(ls) :
              /\ cvars[i].name = RTrim(Slice(ls[i], 1, Delim1(ls[i]) - 1))
              /\ cvars[i].default = RTrim(Slice(ls[i], Delim1(ls[i]) + 2, Delim2(ls[i]) - 1))
              /\ ~EndsInSpace(cvars[i].name)
              /\ ~EndsInSpace(cvars[i].default)

\* C10 as claimed: each is trimmed at both ends, and neither begins or ends with
\* whitespace.
C10_TrimmedAtBothEnds ==
    LET ls == RecordLines(Consumed)
    IN  /\ Len(cvars) = Len(ls)
        /\ \A i \in 1..Len(ls) :
              /\ cvars[i].name = Trim(Slice(ls[i], 1, Delim1(ls[i]) - 1))
              /\ cvars[i].default = Trim(Slice(ls[i], Delim1(ls[i]) + 2, Delim2(ls[i]) - 1))
              /\ ~EndsInSpace(cvars[i].name) /\ ~BeginsWithSpace(cvars[i].name)
              /\ ~EndsInSpace(cvars[i].default) /\ ~BeginsWithSpace(cvars[i].default)

\* A record returned whose line has whitespace before the first delimiter, and
\* whose name begins with whitespace and is not all of the text before it.
C10_Witness ==
    /\ ret # <<>>
    /\ Len(ret[1].cvars) = 1
    /\ BeginsWithSpace(ret[1].cvars[1].name)
    /\ Len(ret[1].cvars[1].name) < Delim1(AllLines[1]) - 1

=============================================================================
